---- MODULE Spec2Model ----
(***************************************************************************)
(* A model of the List component of src/src/List.tsx: the measurement      *)
(* provider it builds (the ObserverHandle with its ResizeObserver and      *)
(* IntersectionObserver callbacks and the debounced fallback poll), the    *)
(* update messages it sends to the store, and the layout effects that      *)
(* consume the store's jump.                                               *)
(*                                                                         *)
(* The store (./state) and debounce (./utils) are imported by List.tsx but *)
(* their code is not part of the sources at hand; they are modelled from   *)
(* the written specification and are marked so in the model map.           *)
(***************************************************************************)
EXTENDS Integers, Sequences, FiniteSets, TLC

\* ---------------------------------------------------------------- bounds
\* Item elements are identified with the keys of the children: 1..MaxCount.
MaxCount == 2
\* The host scroll offset stays within -MaxScroll..MaxScroll.
MaxScroll == 2
\* The intersecting counter is followed up to MaxViewed.
MaxViewed == 2
\* Consecutive fallback polls are counted up to MaxPolls.
MaxPolls == 2

Elems == 1..MaxCount
\* The wrapper element observed by _init (never an item element).
Wrapper == 0

Min2(a, b) == IF a < b THEN a ELSE b
Max2(a, b) == IF a > b THEN a ELSE b

VARIABLES
  phase,           \* "created": rendered, effects not run; "ready"; "torn"
  isHorizontal,    \* prop horizontal
  reverse,         \* prop reverse
  itemMargin,      \* prop itemMargin
  children,        \* prop children: the sequence of keys of the valid elements
  store,           \* the store of ./state: length, viewport, range, jump
  items,           \* keys of the Item components currently mounted
  mountedIndexes,  \* WeakMap<Element, number>
  viewedIndexes,   \* WeakMap<Element, number>
  viewedCount,     \* let viewedCount
  timer,           \* the debounce timer of requestSync
  scrollTop,       \* rootRef.current.scrollTop
  scrollLeft,      \* rootRef.current.scrollLeft
  sent,            \* the messages the last step passed to store._update
  ev,              \* the last event handled
  applied,         \* what the jump effect added to the scroll offset in the last step
  polls,           \* consecutive polls that found nothing intersecting
  onEndReachedCalledIndex,  \* onEndReachedCalledIndex.current
  reached          \* the calls of onEndReached in the last step: [count, endIndex]

vars == <<phase, isHorizontal, reverse, itemMargin, children, store, items, mountedIndexes,
          viewedIndexes, viewedCount, timer, scrollTop, scrollLeft, sent, ev,
          applied, polls, onEndReachedCalledIndex, reached>>

\* ------------------------------------------------------- the store (./state)
\* The update messages of the store (List.tsx:15-23).
HANDLE_SCROLL == "HANDLE_SCROLL"
HANDLE_ITEM_INTERSECTION == "HANDLE_ITEM_INTERSECTION"
UPDATE_VIEWPORT_SIZE == "UPDATE_VIEWPORT_SIZE"
UPDATE_ITEM_SIZES == "UPDATE_ITEM_SIZES"
UPDATE_CACHE_LENGTH == "UPDATE_CACHE_LENGTH"

\* The corrections a jump may carry.
JumpVals == {0, 1}
ZeroJump == [_start |-> 0, _end |-> 0]

\* What the store derives depends on the sizes of the items, which the model
\* leaves to an environment env = [ranges, jumps]:
\*   Uniform: every item has the estimated size and the viewport shows the whole
\*            collection, so no correction is ever generated;
\*   Varied:  the window may be any range, and an item resize or a change of the
\*            item count may publish any correction.
\* margins are the values of the prop itemMargin the List is rendered with: it
\* makes no difference while the window is the whole collection.
Uniform == [ranges |-> "whole", jumps |-> {}, margins |-> {1}]
Varied ==
  [ranges |-> "any", jumps |-> {[_start |-> a, _end |-> b] : a \in JumpVals, b \in JumpVals},
   margins |-> {0, 1}]

\* The visible ranges <<startIndex, endIndex>> the store may derive for a cache
\* of len items: within [0, len-1]; the empty range when len = 0.
Ranges(len, env) ==
  IF len = 0 \/ env.ranges = "whole" THEN {<<0, len - 1>>}
  ELSE {r \in (0..(len - 1)) \X (0..(len - 1)) : r[1] <= r[2]}

\* The store as useVirtualStore(count, itemSize, isHorizontal) builds it.
InitStore(count, env) ==
  {[length |-> count, width |-> 0, height |-> 0,
    startIndex |-> r[1], endIndex |-> r[2], jump |-> ZeroJump] : r \in Ranges(count, env)}

\* store._getViewportSize
ViewportSize(st, horizontal) == IF horizontal THEN st.width ELSE st.height

\* The jumps the store may hold after a message: the jump is kept, or a new jump
\* object is published (pub): a correction only after an item resize or a change
\* of the item count, a zero jump after any message.
JumpsAfter(x, msg, env) ==
  {[jump |-> x.s.jump, pub |-> x.pub]}
  \cup {[jump |-> j, pub |-> TRUE] :
          j \in {k \in env.jumps :
                   \/ msg._type = UPDATE_ITEM_SIZES
                   \/ msg._type = UPDATE_CACHE_LENGTH /\ msg._length # x.s.length
                   \/ k = ZeroJump}}

\* store._update(msg) on x = [s |-> store, pub |-> a jump was published since
\* the last render]: the stores that may result.
StoreNext(x, msg, env) ==
  LET len == IF msg._type = UPDATE_CACHE_LENGTH THEN msg._length ELSE x.s.length
      w == IF msg._type = UPDATE_VIEWPORT_SIZE THEN msg._width ELSE x.s.width
      h == IF msg._type = UPDATE_VIEWPORT_SIZE THEN msg._height ELSE x.s.height
  IN {[s |-> [length |-> len, width |-> w, height |-> h,
              startIndex |-> r[1], endIndex |-> r[2], jump |-> j.jump],
       pub |-> j.pub] : r \in Ranges(len, env), j \in JumpsAfter(x, msg, env)}

\* The messages of one handler applied in order.
RECURSIVE StoreAfter(_, _, _)
StoreAfter(xs, msgs, env) ==
  IF msgs = <<>> THEN xs
  ELSE StoreAfter(UNION {StoreNext(x, Head(msgs), env) : x \in xs}, Tail(msgs), env)

\* ------------------------------------------------ debounce (./utils)
\* requestSync(): the pending timer is cleared and a new one is set.
DebounceCall(t) == "pending"
\* requestSync._cancel(): a pending timer is cleared.
DebounceCancel(t) == IF t = "pending" THEN "cleared" ELSE t

\* --------------------------------------- the observer handle (List.tsx:178-322)
\* The handle's state as a record h = [mounted, viewed, count].
\* WeakMap.set / WeakMap.delete
MapSet(f, el, i) == [e \in DOMAIN f \cup {el} |-> IF e = el THEN i ELSE f[e]]
MapDelete(f, el) == [e \in DOMAIN f \ {el} |-> f[e]]
EmptyMap == [e \in {} |-> 0]
\* WeakMap.get: undefined for an element that is not in the map.
Undefined == -1
MapGet(f, el) == IF el \in DOMAIN f THEN f[el] ELSE Undefined

\* _observe(el, i): the element is registered under the index i.
Observe(h, el, i) == [h EXCEPT !.mounted = MapSet(h.mounted, el, i)]

\* The teardown of _observe without the test viewedIndexes.has(el).
ObserveTeardownBlind(h, el) ==
  [mounted |-> MapDelete(h.mounted, el),
   viewed |-> MapDelete(h.viewed, el),
   count |-> h.count - 1]

\* The teardown _observe returns.
ObserveTeardown(h, el) ==
  IF el \in DOMAIN h.viewed
  THEN [mounted |-> MapDelete(h.mounted, el),
        viewed |-> MapDelete(h.viewed, el),
        count |-> h.count - 1]
  ELSE [h EXCEPT !.mounted = MapDelete(h.mounted, el)]

\* The offset syncViewportToScrollPosition reads from the root element.
NativeOffset(horizontal, rev, top, left) ==
  IF horizontal
  THEN (IF rev THEN -left ELSE left)
  ELSE (IF rev THEN -top ELSE top)

\* syncViewportToScrollPosition: the HANDLE_SCROLL message.
SyncViewportToScrollPosition(horizontal, rev, top, left) ==
  [_type |-> HANDLE_SCROLL, _offset |-> NativeOffset(horizontal, rev, top, left)]

\* The size the ResizeObserver callback takes from an entry of an item.
EntrySize(entry, horizontal) ==
  IF horizontal THEN entry.contentRect.width ELSE entry.contentRect.height

\* The loop of the ResizeObserver callback over the entries; acc = [msgs, sizes,
\* indexes]: the UPDATE_VIEWPORT_SIZE messages sent so far and the resized items.
RECURSIVE ResizeLoop(_, _, _, _)
ResizeLoop(entries, acc, mounted, horizontal) ==
  IF entries = <<>> THEN acc
  ELSE LET entry == Head(entries)
           next ==
             IF entry.target = Wrapper
             THEN [acc EXCEPT !.msgs = Append(@,
                     [_type |-> UPDATE_VIEWPORT_SIZE,
                      _width |-> entry.contentRect.width,
                      _height |-> entry.contentRect.height])]
             ELSE IF entry.target \in DOMAIN mounted
             THEN [acc EXCEPT !.sizes = Append(@, EntrySize(entry, horizontal)),
                              !.indexes = Append(@, mounted[entry.target])]
             ELSE acc
       IN ResizeLoop(Tail(entries), next, mounted, horizontal)

\* The loop with every target that is not a mounted item taken for the wrapper.
RECURSIVE ResizeLoopAnyTarget(_, _, _, _)
ResizeLoopAnyTarget(entries, acc, mounted, horizontal) ==
  IF entries = <<>> THEN acc
  ELSE LET entry == Head(entries)
           next ==
             IF entry.target \notin DOMAIN mounted
             THEN [acc EXCEPT !.msgs = Append(@,
                     [_type |-> UPDATE_VIEWPORT_SIZE,
                      _width |-> entry.contentRect.width,
                      _height |-> entry.contentRect.height])]
             ELSE [acc EXCEPT !.sizes = Append(@, EntrySize(entry, horizontal)),
                              !.indexes = Append(@, mounted[entry.target])]
       IN ResizeLoopAnyTarget(Tail(entries), next, mounted, horizontal)

\* ResizeMessages without the test entry.target === wrapper.
ResizeMessagesAnyTarget(entries, mounted, horizontal) ==
  LET acc == ResizeLoopAnyTarget(entries, [msgs |-> <<>>, sizes |-> <<>>, indexes |-> <<>>],
                                 mounted, horizontal)
  IN IF Len(acc.sizes) # 0
     THEN Append(acc.msgs, [_type |-> UPDATE_ITEM_SIZES,
                            _sizes |-> acc.sizes, _indexes |-> acc.indexes])
     ELSE acc.msgs

\* ResizeMessages without the test of resizedItemSizes.length.
ResizeMessagesAlways(entries, mounted, horizontal) ==
  LET acc == ResizeLoop(entries, [msgs |-> <<>>, sizes |-> <<>>, indexes |-> <<>>],
                        mounted, horizontal)
  IN Append(acc.msgs, [_type |-> UPDATE_ITEM_SIZES,
                       _sizes |-> acc.sizes, _indexes |-> acc.indexes])

\* The messages of one ResizeObserver callback, in the order they are sent.
ResizeMessages(entries, mounted, horizontal) ==
  LET acc == ResizeLoop(entries, [msgs |-> <<>>, sizes |-> <<>>, indexes |-> <<>>],
                        mounted, horizontal)
  IN IF Len(acc.sizes) # 0
     THEN Append(acc.msgs, [_type |-> UPDATE_ITEM_SIZES,
                            _sizes |-> acc.sizes, _indexes |-> acc.indexes])
     ELSE acc.msgs

\* TakesLatest without the test mountedIndexes.has(entry.target).
TakesLatestOfAny(latest, entry, mounted) ==
  latest = <<>> \/ latest[1].time < entry.time

\* TakesLatest without the comparison of the times: the last mounted entry wins.
TakesLast(latest, entry, mounted) == entry.target \in DOMAIN mounted

\* "take latest entry": whether entry replaces latest (a sequence of 0 or 1 entry).
TakesLatest(latest, entry, mounted) ==
  (latest = <<>> \/ latest[1].time < entry.time) /\ entry.target \in DOMAIN mounted

\* The enter / exit bookkeeping of the IntersectionObserver callback for one entry.
EnterExit(h, entry) ==
  IF entry.isIntersecting
  THEN IF entry.target \in DOMAIN h.mounted
       THEN [h EXCEPT !.viewed = MapSet(@, entry.target, h.mounted[entry.target]),
                      !.count = @ + 1]
       ELSE h
  ELSE IF entry.target \in DOMAIN h.viewed
       THEN [h EXCEPT !.viewed = MapDelete(@, entry.target), !.count = @ - 1]
       ELSE h

\* entries.forEach of the IntersectionObserver callback; acc = [latest, h].
RECURSIVE IntersectionLoop(_, _)
IntersectionLoop(entries, acc) ==
  IF entries = <<>> THEN acc
  ELSE LET entry == Head(entries)
       IN IntersectionLoop(Tail(entries),
            [latest |-> IF TakesLatest(acc.latest, entry, acc.h.mounted)
                        THEN <<entry>> ELSE acc.latest,
             h |-> EnterExit(acc.h, entry)])

\* The _offset of HANDLE_ITEM_INTERSECTION computed from an entry.
IntersectionOffset(entry, horizontal, rev) ==
  IF horizontal
  THEN (IF rev
        THEN entry.rootBounds.right - entry.boundingClientRect.right
        ELSE entry.boundingClientRect.left - entry.rootBounds.left)
  ELSE (IF rev
        THEN entry.rootBounds.bottom - entry.boundingClientRect.bottom
        ELSE entry.boundingClientRect.top - entry.rootBounds.top)

\* What the IntersectionObserver callback does after the loop, given the result
\* acc of the loop: [msgs, sync] with sync = requestSync() was called.
IntersectionOutcome(acc, horizontal, rev, top, left) ==
  IF acc.h.count = 0
  THEN [msgs |-> <<SyncViewportToScrollPosition(horizontal, rev, top, left)>>,
        sync |-> TRUE]
  ELSE IF acc.latest # <<>>
  THEN [msgs |-> <<[_type |-> HANDLE_ITEM_INTERSECTION,
                    _index |-> MapGet(acc.h.mounted, acc.latest[1].target),
                    _offset |-> IntersectionOffset(acc.latest[1], horizontal, rev)]>>,
        sync |-> FALSE]
  ELSE [msgs |-> <<>>, sync |-> FALSE]

\* ------------------------------------------------- rendering (List.tsx:324-471)
\* prop itemMargin
ItemMargin == itemMargin

\* RenderedKeys without the test viewportSize !== 0.
RenderedKeysAnyViewport(ch, st, horizontal) ==
  {ch[i + 1] : i \in Max2(st.startIndex - ItemMargin, 0)
                     .. Min2(st.endIndex + ItemMargin, Len(ch) - 1)}

\* RenderedKeys without the margin.
RenderedKeysNoMargin(ch, st, horizontal) ==
  IF ViewportSize(st, horizontal) # 0
  THEN {ch[i + 1] : i \in Max2(st.startIndex, 0) .. Min2(st.endIndex, Len(ch) - 1)}
  ELSE {}

\* The keys of the items one render mounts: the children at the indexes from
\* startIndexWithMargin to endIndexWithMargin, and none while viewportSize is 0.
RenderedKeys(ch, st, horizontal) ==
  IF ViewportSize(st, horizontal) # 0
  THEN {ch[i + 1] : i \in Max2(st.startIndex - ItemMargin, 0)
                          .. Min2(st.endIndex + ItemMargin, Len(ch) - 1)}
  ELSE {}

\* The index of the child with key k.
IndexOf(ch, k) == CHOOSE i \in 0..(Len(ch) - 1) : ch[i + 1] = k

\* The Items that leave the tree run the teardown of their _observe.
RECURSIVE TeardownAll(_, _)
TeardownAll(h, els) ==
  IF els = {} THEN h
  ELSE LET el == CHOOSE e \in els : TRUE
       IN TeardownAll(ObserveTeardown(h, el), els \ {el})

\* The Items that enter the tree run handle._observe(ref.current, index) once.
RECURSIVE ObserveAll(_, _, _)
ObserveAll(h, els, ch) ==
  IF els = {} THEN h
  ELSE LET el == CHOOSE e \in els : TRUE
       IN ObserveAll(Observe(h, el, IndexOf(ch, el)), els \ {el}, ch)

\* One render committed: Items are keyed, so an Item that stays keeps the
\* registration it made when it was mounted.
Reconcile(h, its, ch, st, horizontal) ==
  LET want == RenderedKeys(ch, st, horizontal)
  IN [h |-> ObserveAll(TeardownAll(h, its \ want), want \ its, ch),
      items |-> want]

\* StartCorrection without the test of the scroll offset.
StartCorrectionAnyScroll(jump, startIndex, scroll) ==
  IF jump._start # 0 /\ ~(startIndex = 0) THEN jump._start ELSE 0

\* What the jump effect adds for jump._start.
StartCorrection(jump, startIndex, scroll) ==
  IF jump._start # 0 /\ ~(startIndex = 0 /\ scroll = 0) THEN jump._start ELSE 0

\* EndCorrection without the test of the start index.
EndCorrectionAnyStart(jump, startIndex, endIndex, count) ==
  IF jump._end # 0 /\ endIndex - (count - 1) = 0 THEN jump._end ELSE 0

\* What the jump effect adds for jump._end.
EndCorrection(jump, startIndex, endIndex, count) ==
  IF jump._end # 0 /\ ~(startIndex = 0) /\ endIndex - (count - 1) = 0
  THEN jump._end ELSE 0

\* Nothing was added to the scroll offset.
NoneApplied == [fresh |-> FALSE, _start |-> 0, _end |-> 0]

\* JumpEffect without its dependency array: it runs after every render.
JumpEffectEveryRender(pub, st, count, horizontal, top, left) ==
  LET d1 == StartCorrection(st.jump, st.startIndex, IF horizontal THEN left ELSE top)
      d2 == EndCorrection(st.jump, st.startIndex, st.endIndex, count)
  IN [top |-> IF horizontal THEN top ELSE top + d1 + d2,
      left |-> IF horizontal THEN left + d1 + d2 ELSE left,
      applied |-> [fresh |-> pub, _start |-> d1, _end |-> d2]]

\* The effect with the dependency [jump]: it runs when the render saw a new jump
\* object (pub). The result is [top, left, applied], applied telling whether the
\* jump was a new object and what was added for _start and for _end.
JumpEffect(pub, st, count, horizontal, top, left) ==
  LET d1 == StartCorrection(st.jump, st.startIndex, IF horizontal THEN left ELSE top)
      d2 == EndCorrection(st.jump, st.startIndex, st.endIndex, count)
  IN IF pub
     THEN [top |-> IF horizontal THEN top ELSE top + d1 + d2,
           left |-> IF horizontal THEN left + d1 + d2 ELSE left,
           applied |-> [fresh |-> TRUE, _start |-> d1, _end |-> d2]]
     ELSE [top |-> top, left |-> left, applied |-> NoneApplied]

\* scrollTo without the clamp to the end of the content.
ScrollToOffsetUnclamped(itemOffset, scrollSize, viewportSize) == itemOffset

\* The offset scrollTo computes before it applies the sign of the direction.
ScrollToOffset(itemOffset, scrollSize, viewportSize) ==
  IF scrollSize - (itemOffset + viewportSize) <= 0
  THEN scrollSize - viewportSize
  ELSE itemOffset

\* scrollTo(index): root = rootRef.current is set; itemOffset is what
\* store._getItemOffset(index) returns. The result is [top, left].
ScrollTo(root, horizontal, rev, top, left, itemOffset, scrollSize, viewportSize) ==
  IF root
  THEN LET o == ScrollToOffset(itemOffset, scrollSize, viewportSize)
           offset == IF rev THEN o * (-1) ELSE o
       IN [top |-> IF horizontal THEN top ELSE offset,
           left |-> IF horizontal THEN offset ELSE left]
  ELSE [top |-> top, left |-> left]

\* prop endThreshold
EndThreshold == 0

\* The onEndReached effect without the test of onEndReachedCalledIndex.
OnEndReachedEveryTime(calledIndex, count, endIndex) ==
  IF count - 1 - endIndex <= EndThreshold
  THEN [index |-> count, calls |-> <<[count |-> count, endIndex |-> endIndex]>>]
  ELSE [index |-> calledIndex, calls |-> <<>>]

\* The body of the onEndReached effect, the prop onEndReached being given:
\* [index, calls] with index the new onEndReachedCalledIndex.current.
OnEndReached(calledIndex, count, endIndex) ==
  IF count - 1 - endIndex <= EndThreshold /\ calledIndex < count
  THEN [index |-> count, calls |-> <<[count |-> count, endIndex |-> endIndex]>>]
  ELSE [index |-> calledIndex, calls |-> <<>>]

\* The effect with the dependency [endIndex] over the renders of one step: it
\* runs after the first render (first) with the endIndex of that render, and
\* after a render that sees another endIndex than the render before it.
EndReachedEffect(first, calledIndex, count, before, after) ==
  LET a == IF first THEN OnEndReached(calledIndex, count, before)
           ELSE [index |-> calledIndex, calls |-> <<>>]
      b == IF after # before THEN OnEndReached(a.index, count, after)
           ELSE [index |-> a.index, calls |-> <<>>]
  IN [index |-> b.index, calls |-> a.calls \o b.calls]

\* The render that follows a handler: x = [s, pub] is the store after the
\* handler's messages, h the handle after the handler.
Commit(x, h, its, ch, horizontal, top, left) ==
  LET r == Reconcile(h, its, ch, x.s, horizontal)
      j == JumpEffect(x.pub, x.s, Len(ch), horizontal, top, left)
  IN [store |-> x.s, h |-> r.h, items |-> r.items,
      top |-> j.top, left |-> j.left, applied |-> j.applied]

Handle == [mounted |-> mountedIndexes, viewed |-> viewedIndexes, count |-> viewedCount]

ScrollRange == (-MaxScroll)..MaxScroll

\* The state after a handler that sent msgs, left the handle as h, the timer as
\* tm, and rendered the children ch with the Items its mounted before.
Finish(msgs, h, its, ch, tm, polled, env) ==
  \E x \in StoreAfter({[s |-> store, pub |-> FALSE]}, msgs, env) :
    \E c \in {Commit(x, h, its, ch, isHorizontal, scrollTop, scrollLeft)} :
       /\ c.top \in ScrollRange
       /\ c.left \in ScrollRange
       /\ store' = c.store
       /\ items' = c.items
       /\ mountedIndexes' = c.h.mounted
       /\ viewedIndexes' = c.h.viewed
       /\ viewedCount' = c.h.count
       /\ scrollTop' = c.top
       /\ scrollLeft' = c.left
       /\ applied' = c.applied
       /\ sent' = msgs
       /\ timer' = tm
       /\ children' = ch
       /\ polls' = IF c.h.count # 0 THEN 0
                   ELSE IF polled THEN Min2(polls + 1, MaxPolls) ELSE polls
       /\ \E e \in {EndReachedEffect(phase = "created", onEndReachedCalledIndex, Len(ch),
                                      store.endIndex, c.store.endIndex)} :
             /\ onEndReachedCalledIndex' = e.index
             /\ reached' = e.calls
       /\ UNCHANGED <<isHorizontal, reverse, itemMargin>>

\* ------------------------------------------------------------------ inputs
\* The children are the elements keyed lo..hi of one collection: elements are
\* inserted at and removed from either end of it.
Windows ==
  {<<>>} \cup {[i \in 1..(hi - lo + 1) |-> lo + i - 1] : lo \in Elems, hi \in Elems}

\* The content rect a ResizeObserver reports for the item element e.
ItemRect(e) == [width |-> e, height |-> e + MaxCount]
WrapperRects == {[width |-> 0, height |-> 0], [width |-> 1, height |-> 2]}

ResizeEntries ==
  {[target |-> Wrapper, contentRect |-> r] : r \in WrapperRects}
  \cup {[target |-> e, contentRect |-> ItemRect(e)] : e \in Elems}

\* A ResizeObserver delivers one entry for a target; a batch holds one or two.
ResizeBatches ==
  {<<a>> : a \in ResizeEntries}
  \cup {p \in ResizeEntries \X ResizeEntries : p[1].target # p[2].target}

\* The batches of one entry.
SingleResizes == {<<a>> : a \in ResizeEntries}

Times == {1, 2}
RootBounds == [top |-> 0, left |-> 0, bottom |-> 30, right |-> 50]
\* The bounding rect of the item element e at the time t.
ClientRect(e, t) ==
  LET pos == (MaxCount + 1) * t + e
  IN [top |-> pos, bottom |-> pos + 1, left |-> pos + 10, right |-> pos + 11]

IntersectionEntries ==
  {[target |-> e, time |-> t, isIntersecting |-> b,
    boundingClientRect |-> ClientRect(e, t), rootBounds |-> RootBounds] :
     e \in Elems, t \in Times, b \in BOOLEAN}

\* A batch of the IntersectionObserver holds one or two entries, in any order.
IntersectionBatches ==
  {<<a>> : a \in IntersectionEntries}
  \cup (IntersectionEntries \X IntersectionEntries)

\* The batches the observer delivers: its queue holds the entries in the order
\* of their times.
DeliveredBatches == {b \in IntersectionBatches : Len(b) = 2 => b[1].time <= b[2].time}

\* The offsets the user may scroll the root element to (negated when reversed).
ScrollOffsets == {0, 1}

\* What the store may return for _getItemOffset(index) and _getScrollSize().
ItemOffsets == {0, 1}
ScrollSizes == {1, 2}

\* ------------------------------------------------------------------- actions
InitIn(env) ==
  /\ phase = "created"
  /\ isHorizontal \in BOOLEAN
  /\ reverse \in BOOLEAN
  /\ itemMargin \in env.margins
  /\ children \in Windows
  /\ store \in InitStore(Len(children), env)
  /\ items = {}
  /\ mountedIndexes = EmptyMap
  /\ viewedIndexes = EmptyMap
  /\ viewedCount = 0
  /\ timer = "idle"
  /\ scrollTop = 0
  /\ scrollLeft = 0
  /\ sent = <<>>
  /\ ev = "render"
  /\ applied = NoneApplied
  /\ polls = 0
  /\ onEndReachedCalledIndex = -1
  /\ reached = <<>>

\* The layout effects of the first commit: handle._init(root, wrapper), which
\* builds the observers and observes the wrapper, then UPDATE_CACHE_LENGTH.
Mount(env) ==
  /\ phase = "created"
  /\ phase' = "ready"
  /\ ev' = "mount"
  /\ Finish(<<[_type |-> UPDATE_CACHE_LENGTH, _length |-> Len(children)]>>,
            Handle, items, children, timer, FALSE, env)

\* The ResizeObserver callback.
ResizeCallback(entries, env) ==
  /\ phase = "ready"
  /\ phase' = phase
  /\ ev' = "resize"
  /\ Finish(ResizeMessages(entries, mountedIndexes, isHorizontal),
            Handle, items, children, timer, FALSE, env)

\* The IntersectionObserver callback.
IntersectionCallback(entries, env) ==
  /\ phase = "ready"
  /\ \E acc \in {IntersectionLoop(entries, [latest |-> <<>>, h |-> Handle])} :
     \E out \in {IntersectionOutcome(acc, isHorizontal, reverse, scrollTop, scrollLeft)} :
        /\ acc.h.count <= MaxViewed
        /\ phase' = phase
        /\ ev' = "intersection"
        /\ Finish(out.msgs, acc.h, items, children,
                  IF out.sync THEN DebounceCall(timer) ELSE timer, FALSE, env)

\* RequestSync without the call of requestSync() after the sync.
RequestSyncOnce(count, horizontal, rev, top, left) ==
  IF count # 0
  THEN [msgs |-> <<>>, sync |-> FALSE]
  ELSE [msgs |-> <<SyncViewportToScrollPosition(horizontal, rev, top, left)>>,
        sync |-> FALSE]

\* The messages of the function requestSync debounces, and whether it calls
\* requestSync again.
RequestSync(count, horizontal, rev, top, left) ==
  IF count # 0
  THEN [msgs |-> <<>>, sync |-> FALSE]
  ELSE [msgs |-> <<SyncViewportToScrollPosition(horizontal, rev, top, left)>>,
        sync |-> TRUE]

\* The debounce timer expires.
TimerFire(env) ==
  /\ timer = "pending"
  /\ LET out == RequestSync(viewedCount, isHorizontal, reverse, scrollTop, scrollLeft)
     IN /\ phase' = phase
        /\ ev' = "timer"
        /\ Finish(out.msgs, Handle, items, children,
                  IF out.sync THEN DebounceCall("idle") ELSE "idle", out.sync, env)

\* OnScroll with a scroll listener that calls syncViewportToScrollPosition.
OnScrollSyncs(horizontal, rev, top, left, v) ==
  LET t == IF horizontal THEN top ELSE (IF rev THEN -v ELSE v)
      l == IF horizontal THEN (IF rev THEN -v ELSE v) ELSE left
  IN [top |-> t, left |-> l,
      msgs |-> <<SyncViewportToScrollPosition(horizontal, rev, t, l)>>]

\* The user scrolls the root element: the scroll event goes to the onScroll prop.
OnScroll(horizontal, rev, top, left, v) ==
  [top |-> IF horizontal THEN top ELSE (IF rev THEN -v ELSE v),
   left |-> IF horizontal THEN (IF rev THEN -v ELSE v) ELSE left,
   msgs |-> <<>>]

NativeScroll(v) ==
  /\ phase = "ready"
  /\ LET out == OnScroll(isHorizontal, reverse, scrollTop, scrollLeft, v)
     IN /\ scrollTop' = out.top
        /\ scrollLeft' = out.left
        /\ sent' = out.msgs
  /\ ev' = "scroll"
  /\ applied' = NoneApplied
  /\ reached' = IF phase = "ready" THEN <<>> ELSE reached
  /\ UNCHANGED <<phase, isHorizontal, reverse, itemMargin, children, store, items,
                 mountedIndexes, viewedIndexes, viewedCount, timer, polls,
                 onEndReachedCalledIndex>>

\* The parent calls scrollTo on the handle of the ref. Once the List is
\* unmounted rootRef.current is null and the call changes nothing.
CallScrollTo(itemOffset, scrollSize) ==
  /\ phase \in {"ready", "torn"}
  /\ LET r == ScrollTo(phase = "ready", isHorizontal, reverse, scrollTop, scrollLeft,
                       itemOffset, scrollSize, ViewportSize(store, isHorizontal))
     IN /\ r.top \in ScrollRange
        /\ r.left \in ScrollRange
        /\ scrollTop' = r.top
        /\ scrollLeft' = r.left
  /\ ev' = IF phase = "ready" THEN "scrollTo" ELSE ev
  /\ sent' = IF phase = "ready" THEN <<>> ELSE sent
  /\ applied' = IF phase = "ready" THEN NoneApplied ELSE applied
  /\ reached' = IF phase = "ready" THEN <<>> ELSE reached
  /\ UNCHANGED <<phase, isHorizontal, reverse, itemMargin, children, store, items,
                 mountedIndexes, viewedIndexes, viewedCount, timer, polls,
                 onEndReachedCalledIndex>>

\* The parent renders the List with other children: the Items are reconciled,
\* then the effect with the dependency [count] sends UPDATE_CACHE_LENGTH.
SetChildren(ch, env) ==
  /\ phase = "ready"
  /\ ch # children
  /\ LET r == Reconcile(Handle, items, ch, store, isHorizontal)
         msgs == IF Len(ch) # Len(children)
                 THEN <<[_type |-> UPDATE_CACHE_LENGTH, _length |-> Len(ch)]>>
                 ELSE <<>>
     IN /\ phase' = phase
        /\ ev' = "children"
        /\ Finish(msgs, r.h, r.items, ch, timer, FALSE, env)

\* InitTeardown without requestSync._cancel().
InitTeardownKeepsTimer(tm) == tm

\* The teardown _init returns.
InitTeardown(tm) == DebounceCancel(tm)

\* The List is unmounted: the teardown of _init and of every Item's _observe.
Unmount ==
  /\ phase = "ready"
  /\ phase' = "torn"
  /\ LET h == TeardownAll(Handle, items)
     IN /\ mountedIndexes' = h.mounted
        /\ viewedIndexes' = h.viewed
        /\ viewedCount' = h.count
  /\ items' = {}
  /\ timer' = InitTeardown(timer)
  /\ sent' = <<>>
  /\ ev' = "unmount"
  /\ applied' = NoneApplied
  /\ reached' = <<>>
  /\ UNCHANGED <<isHorizontal, reverse, itemMargin, children, store, scrollTop,
                 scrollLeft, polls, onEndReachedCalledIndex>>

\* Every item has the estimated size: the observers, the poll and the teardowns.
Init == InitIn(Uniform)

Next ==
  \/ Mount(Uniform)
  \/ \E entries \in ResizeBatches : ResizeCallback(entries, Uniform)
  \/ \E entries \in DeliveredBatches : IntersectionCallback(entries, Uniform)
  \/ TimerFire(Uniform)
  \/ \E v \in ScrollOffsets : NativeScroll(v)
  \/ \E itemOffset \in ItemOffsets, scrollSize \in ScrollSizes :
        CallScrollTo(itemOffset, scrollSize)
  \/ \E ch \in Windows : SetChildren(ch, Uniform)
  \/ Unmount

Spec == Init /\ [][Next]_vars

\* The items have sizes of their own and nothing crosses the viewport's edge:
\* the store's window moves and corrections are published.
InitJump == InitIn(Varied)

NextJump ==
  \/ Mount(Varied)
  \/ \E entries \in SingleResizes : ResizeCallback(entries, Varied)
  \/ \E v \in ScrollOffsets : NativeScroll(v)
  \/ \E ch \in Windows : SetChildren(ch, Varied)
  \/ Unmount

SpecJump == InitJump /\ [][NextJump]_vars

\* ------------------------------------------------------------ properties
\* What the root element reports as its scroll offset, negated when reversed.
NativeReading ==
  IF isHorizontal
  THEN (IF reverse THEN -scrollLeft ELSE scrollLeft)
  ELSE (IF reverse THEN -scrollTop ELSE scrollTop)

\* The HANDLE_SCROLL message that carries the native reading.
ScrollMessage == [_type |-> HANDLE_SCROLL, _offset |-> NativeReading]

\* The scroll offset on the axis of the list, and on the other axis.
HostScroll == IF isHorizontal THEN scrollLeft ELSE scrollTop
CrossScroll == IF isHorizontal THEN scrollTop ELSE scrollLeft

\* C1 (as stated): in every step of the live provider in which the set of
\* intersecting items becomes empty, by an intersection batch or by the
\* teardown of an item's observation, a HANDLE_SCROLL message with the native
\* scroll offset is sent in that same step.
C1_ScrollWhenViewedEmpties ==
  [][(DOMAIN viewedIndexes # {} /\ DOMAIN viewedIndexes' = {} /\ phase' = "ready")
       => (\E i \in DOMAIN sent' : sent'[i] = ScrollMessage)]_vars

\* C2 (as stated): while the provider is live, a timer expiry that finds no item
\* intersecting sends HANDLE_SCROLL with the native offset and schedules the
\* next poll; an expiry that finds an item intersecting sends nothing and
\* schedules nothing.
C2_PollWhileNothingIntersects ==
  [][(ev' = "timer" /\ phase = "ready") =>
        IF DOMAIN viewedIndexes = {}
        THEN sent' = <<ScrollMessage>> /\ timer' = "pending"
        ELSE sent' = <<>> /\ timer' = "idle"]_vars

\* The model counts the consecutive polls up to MaxPolls, so a retry limit it
\* can tell from no limit is below MaxPolls.
RetryLimit == MaxPolls - 1

\* C3 (as stated): the polls of one period in which no item is intersecting
\* never exceed a fixed retry limit.
C3_BoundedRetry == polls <= RetryLimit

\* C3 (amended): the polling has no retry limit: every timer expiry that finds
\* the intersecting counter at zero sends HANDLE_SCROLL with the native offset
\* and schedules the next poll, however many polls came before it.
C3_PollsWithoutLimit ==
  [][(ev' = "timer" /\ viewedCount = 0) =>
        /\ sent' = <<ScrollMessage>>
        /\ timer' = "pending"
        /\ polls' = Min2(polls + 1, MaxPolls)]_vars

\* More than RetryLimit polls in a row were made and the next one is scheduled.
C3_Witness ==
  /\ ev = "timer"
  /\ polls = MaxPolls
  /\ timer = "pending"
  /\ viewedCount = 0
  /\ sent = <<ScrollMessage>>

\* C4: for every batch of intersection entries that leaves an item recorded as
\* intersecting, the callback sends at most one HANDLE_ITEM_INTERSECTION, and
\* it carries the index and the offset of an entry whose time is the greatest
\* among the entries of the batch with a mounted target, whatever the order of
\* the entries.
C4_LatestEntryIsAnchor ==
  \A entries \in IntersectionBatches :
    LET acc == IntersectionLoop(entries, [latest |-> <<>>, h |-> Handle])
        out == IntersectionOutcome(acc, isHorizontal, reverse, scrollTop, scrollLeft)
        live == {k \in DOMAIN entries : entries[k].target \in DOMAIN mountedIndexes}
        anchors == {i \in DOMAIN out.msgs : out.msgs[i]._type = HANDLE_ITEM_INTERSECTION}
    IN (DOMAIN acc.h.viewed # {}) =>
         /\ Cardinality(anchors) <= 1
         /\ \A i \in anchors :
              \E k \in live :
                 /\ \A j \in live : entries[j].time <= entries[k].time
                 /\ out.msgs[i]._index = mountedIndexes[entries[k].target]
                 /\ out.msgs[i]._offset =
                      IntersectionOffset(entries[k], isHorizontal, reverse)

\* An intersection batch was handled with two items mounted, an item is
\* intersecting, and the anchor message was sent.
C4_Witness ==
  /\ ev = "intersection"
  /\ Cardinality(DOMAIN mountedIndexes) >= 2
  /\ DOMAIN viewedIndexes # {}
  /\ Len(sent) = 1
  /\ sent[1]._type = HANDLE_ITEM_INTERSECTION

\* C5: once the teardown of _init has run, no poll is pending, and no step
\* follows the teardown: nothing is sent to the store after it.
C5_SilentAfterTeardown ==
  (phase = "torn") => (timer # "pending" /\ sent = <<>> /\ ev = "unmount")

\* The provider was torn down while a poll was pending and no item was
\* intersecting.
C5_Witness ==
  /\ phase = "torn"
  /\ timer = "cleared"
  /\ viewedCount = 0
  /\ polls > 0

\* C6 (as stated): every native scroll event sends a HANDLE_SCROLL message that
\* carries the native reading.
C6_ScrollEventSendsScroll ==
  (ev = "scroll") => (sent = <<ScrollMessage>>)

\* C6 (amended): a native scroll event sends nothing and leaves the store as it
\* is; HANDLE_SCROLL is sent only by an intersection batch or a timer expiry
\* that leaves the intersecting counter at zero, and it carries the native
\* reading, negated when reversed.
C6_ScrollOnlyFromFallback ==
  [][/\ (ev' = "scroll") => (sent' = <<>> /\ store' = store)
     /\ \A i \in DOMAIN sent' :
          (sent'[i]._type = HANDLE_SCROLL) =>
             /\ ev' \in {"intersection", "timer"}
             /\ viewedCount' = 0
             /\ sent'[i]._offset = NativeReading]_vars

\* The user scrolled away from the start and nothing was sent.
C6_Witness ==
  /\ ev = "scroll"
  /\ HostScroll # 0
  /\ sent = <<>>

\* C7: every batch of resize entries yields at most one UPDATE_ITEM_SIZES; it
\* holds the entries with a mounted target in the order of the batch, _indexes
\* and _sizes of equal length and paired by position; a batch with no mounted
\* item yields none.
C7_OneItemResizePerBatch ==
  \A entries \in ResizeBatches :
    LET msgs == ResizeMessages(entries, mountedIndexes, isHorizontal)
        resized == SelectSeq(entries, LAMBDA e : e.target \in DOMAIN mountedIndexes)
        updates == {i \in DOMAIN msgs : msgs[i]._type = UPDATE_ITEM_SIZES}
    IN /\ Cardinality(updates) <= 1
       /\ (resized = <<>>) => (updates = {})
       /\ (resized # <<>>) =>
            \E i \in updates :
               /\ Len(msgs[i]._indexes) = Len(resized)
               /\ Len(msgs[i]._sizes) = Len(resized)
               /\ \A k \in DOMAIN resized :
                    /\ msgs[i]._indexes[k] = mountedIndexes[resized[k].target]
                    /\ msgs[i]._sizes[k] =
                         (IF isHorizontal THEN resized[k].contentRect.width
                                          ELSE resized[k].contentRect.height)

\* A batch that resized two mounted items was handled with one message.
C7_Witness ==
  /\ ev = "resize"
  /\ Len(sent) = 1
  /\ sent[1]._type = UPDATE_ITEM_SIZES
  /\ Len(sent[1]._indexes) = 2
  /\ sent[1]._indexes[1] # sent[1]._indexes[2]

\* C8: in a step that consumes a new jump with _start # 0, the scroll offset
\* on the axis of the list grows by _start (and by what is added for _end),
\* unless startIndex is 0 and the scroll offset was 0: then _start adds nothing.
C8_StartCorrectionRule ==
  [][(applied'.fresh /\ store'.jump._start # 0) =>
        /\ HostScroll' = HostScroll + applied'._end
                         + (IF store'.startIndex = 0 /\ HostScroll = 0
                            THEN 0 ELSE store'.jump._start)
        /\ CrossScroll' = CrossScroll]_vars

\* A jump was consumed and its _start was added with the window at index 0,
\* the scroll offset being away from 0.
C8_Witness ==
  /\ applied.fresh
  /\ store.jump._start # 0
  /\ applied._start = store.jump._start
  /\ store.startIndex = 0

\* C9: in a step that consumes a new jump, the scroll offset on the axis of the
\* list grows by _end (and by what is added for _start) only if endIndex is
\* count - 1 and startIndex is not 0; otherwise _end adds nothing.
C9_EndCorrectionRule ==
  [][applied'.fresh =>
        /\ HostScroll' = HostScroll + applied'._start
                         + (IF store'.endIndex = Len(children') - 1 /\ store'.startIndex # 0
                            THEN store'.jump._end ELSE 0)
        /\ CrossScroll' = CrossScroll]_vars

\* A jump was consumed and its _end was added.
C9_Witness ==
  /\ applied.fresh
  /\ store.jump._end # 0
  /\ applied._end = store.jump._end
  /\ store.endIndex = Len(children) - 1

C11_ScrollToClampsToEnd ==
  \A itemOffset \in ItemOffsets, scrollSize \in ScrollSizes :
    LET viewportSize == ViewportSize(store, isHorizontal)
        r == ScrollTo(phase = "ready", isHorizontal, reverse, scrollTop, scrollLeft,
                      itemOffset, scrollSize, viewportSize)
        least == Min2(itemOffset, scrollSize - viewportSize)
        signed == IF reverse THEN -least ELSE least
    IN IF phase = "ready"
       THEN IF isHorizontal
            THEN r.left = signed /\ r.top = scrollTop
            ELSE r.top = signed /\ r.left = scrollLeft
       ELSE r.top = scrollTop /\ r.left = scrollLeft

\* scrollTo was called in a reversed list with a viewport and moved the offset.
C11_Witness ==
  /\ ev = "scrollTo"
  /\ reverse
  /\ ViewportSize(store, isHorizontal) # 0
  /\ HostScroll # 0

\* C19 (as stated): for every item offset and scroll size the store may return,
\* the offset scrollTo computes before the sign is applied lies in
\* [0, max(0, scrollSize - viewportSize)].
C19_ScrollToInRange ==
  \A itemOffset \in ItemOffsets, scrollSize \in ScrollSizes :
    LET viewportSize == ViewportSize(store, isHorizontal)
        o == ScrollToOffset(itemOffset, scrollSize, viewportSize)
    IN (phase = "ready") => (0 <= o /\ o <= Max2(0, scrollSize - viewportSize))

\* The indexes of the children the Items are mounted for.
MountedItemIndexes == {i \in 0..(Len(children) - 1) : children[i + 1] \in items}

\* C12: after every render of the live List the indexes of the mounted Items
\* are exactly those from max(startIndex - itemMargin, 0) to
\* min(endIndex + itemMargin, count - 1) if the viewport size is not 0, and
\* none otherwise; so they lie in [0, count - 1] and there is none for count 0.
C12_MountedWindow ==
  (phase = "ready") =>
     /\ MountedItemIndexes =
          (IF ViewportSize(store, isHorizontal) # 0
           THEN {i \in (-1)..MaxCount :
                   /\ Max2(store.startIndex - itemMargin, 0) <= i
                   /\ i <= Min2(store.endIndex + itemMargin, Len(children) - 1)}
           ELSE {})
     /\ MountedItemIndexes \subseteq 0..(Len(children) - 1)
     /\ (Len(children) = 0) => (items = {})
     /\ Cardinality(items) = Cardinality(MountedItemIndexes)

\* The margin extended a window of one item to two mounted Items.
C12_Witness ==
  /\ phase = "ready"
  /\ ViewportSize(store, isHorizontal) # 0
  /\ itemMargin = 1
  /\ store.startIndex = store.endIndex
  /\ Cardinality(items) = 2

\* C13: a teardown called a second time changes nothing: for every element the
\* handle is, after two calls of the teardown of its _observe, as it is after
\* one, the counter being lowered by one at most; and the timer is, after two
\* calls of the teardown of _init, as it is after one.
C13_TeardownTwice ==
  /\ \A el \in Elems :
        LET once == ObserveTeardown(Handle, el)
            twice == ObserveTeardown(once, el)
        IN /\ twice = once
           /\ twice.count >= viewedCount - 1
  /\ InitTeardown(InitTeardown(timer)) = InitTeardown(timer)

\* An item is recorded as intersecting and a poll is pending, so that the
\* first call of either teardown has something to undo.
C13_Witness ==
  /\ phase = "ready"
  /\ timer = "pending"
  /\ \E el \in DOMAIN viewedIndexes :
        /\ ObserveTeardown(Handle, el).count = viewedCount - 1
        /\ el \notin DOMAIN ObserveTeardown(Handle, el).mounted

\* C14: a batch of resize entries yields one UPDATE_VIEWPORT_SIZE for each entry
\* whose target is the wrapper, with the width and height of that entry, and
\* none for any other entry; and a step that sends UPDATE_VIEWPORT_SIZE or
\* changes the viewport of the store is the handling of a resize batch, never
\* an intersection batch, a poll, a change of the count, a scroll or scrollTo.
C14_ViewportOnlyFromWrapperResize ==
  /\ [](\A entries \in ResizeBatches :
          LET msgs == ResizeMessages(entries, mountedIndexes, isHorizontal)
              wrappers == SelectSeq(entries, LAMBDA e : e.target = Wrapper)
              updates == SelectSeq(msgs, LAMBDA u : u._type = UPDATE_VIEWPORT_SIZE)
          IN /\ Len(updates) = Len(wrappers)
             /\ \A k \in DOMAIN wrappers :
                  /\ updates[k]._width = wrappers[k].contentRect.width
                  /\ updates[k]._height = wrappers[k].contentRect.height)
  /\ [][(\/ \E i \in DOMAIN sent' : sent'[i]._type = UPDATE_VIEWPORT_SIZE
         \/ store'.width # store.width
         \/ store'.height # store.height)
        => (ev' = "resize")]_vars

\* A batch with an entry of the wrapper and an entry of a mounted item was
\* handled: the viewport message was sent first, then the sizes.
C14_Witness ==
  /\ ev = "resize"
  /\ Len(sent) = 2
  /\ sent[1]._type = UPDATE_VIEWPORT_SIZE
  /\ sent[1]._width = store.width
  /\ sent[1]._height = store.height
  /\ sent[2]._type = UPDATE_ITEM_SIZES

\* C15 (as stated): in every state of the live List each mounted Item's element
\* is registered in mountedIndexes under the index the Item has among the
\* children now.
C15_RegisteredUnderCurrentIndex ==
  (phase = "ready") =>
     \A k \in items :
        /\ k \in DOMAIN mountedIndexes
        /\ mountedIndexes[k] = IndexOf(children, k)

\* C16 (as stated): in every state the intersecting counter equals the number
\* of elements recorded as intersecting, and it is not negative.
C16_CounterMatchesViewed ==
  /\ viewedCount = Cardinality(DOMAIN viewedIndexes)
  /\ viewedCount >= 0

\* C17: for every batch of intersection entries and every batch of resize
\* entries, each index in a HANDLE_ITEM_INTERSECTION or UPDATE_ITEM_SIZES
\* message is the index registered in mountedIndexes for the target of an
\* entry of the batch, never undefined; a batch whose targets are all torn
\* down yields no such message.
C17_IndexesOfMountedOnly ==
  /\ \A entries \in IntersectionBatches :
        LET acc == IntersectionLoop(entries, [latest |-> <<>>, h |-> Handle])
            out == IntersectionOutcome(acc, isHorizontal, reverse, scrollTop, scrollLeft)
            live == {k \in DOMAIN entries : entries[k].target \in DOMAIN mountedIndexes}
        IN \A i \in DOMAIN out.msgs :
              (out.msgs[i]._type = HANDLE_ITEM_INTERSECTION) =>
                 /\ out.msgs[i]._index # Undefined
                 /\ \E k \in live :
                      out.msgs[i]._index = mountedIndexes[entries[k].target]
  /\ \A entries \in ResizeBatches :
        LET msgs == ResizeMessages(entries, mountedIndexes, isHorizontal)
            live == {k \in DOMAIN entries : entries[k].target \in DOMAIN mountedIndexes}
        IN \A i \in DOMAIN msgs :
              (msgs[i]._type = UPDATE_ITEM_SIZES) =>
                 \A j \in DOMAIN msgs[i]._indexes :
                    /\ msgs[i]._indexes[j] # Undefined
                    /\ \E k \in live :
                         msgs[i]._indexes[j] = mountedIndexes[entries[k].target]

\* An intersection batch was handled while an element had no registration,
\* and the anchor message carries the index of the element that has one.
C17_Witness ==
  /\ ev = "intersection"
  /\ Elems \ DOMAIN mountedIndexes # {}
  /\ Len(sent) = 1
  /\ sent[1]._type = HANDLE_ITEM_INTERSECTION
  /\ \E el \in DOMAIN mountedIndexes : sent[1]._index = mountedIndexes[el]

\* C18: no element is registered unless the provider is initialised and not
\* torn down: outside the live phase no Item is mounted and no element is
\* registered; a step that registers an element starts and ends in the live
\* phase with a viewport size that is not 0; and the viewport size leaves 0
\* only by the handling of a resize batch in the live phase.
C18_ObservedOnlyWhileLive ==
  /\ []((phase # "ready") => (items = {} /\ DOMAIN mountedIndexes = {}))
  /\ [][/\ (DOMAIN mountedIndexes' \ DOMAIN mountedIndexes # {}) =>
              /\ phase = "ready"
              /\ phase' = "ready"
              /\ ViewportSize(store', isHorizontal) # 0
        /\ (ViewportSize(store, isHorizontal) = 0 /\ ViewportSize(store', isHorizontal) # 0) =>
              /\ phase = "ready"
              /\ ev' = "resize"]_vars

\* The wrapper was resized from 0 and the Items of the window were mounted and
\* registered.
C18_Witness ==
  /\ phase = "ready"
  /\ ev = "resize"
  /\ Len(sent) = 1
  /\ sent[1]._type = UPDATE_VIEWPORT_SIZE
  /\ items # {}
  /\ DOMAIN mountedIndexes = items

\* C20: the calls of onEndReached are made at strictly increasing counts, each
\* above the count of the call before it, so at most one call is made for any
\* count; and each call is made by a render with count - 1 - endIndex <=
\* endThreshold.
C20_EndReachedOncePerCount ==
  [][/\ \A i \in DOMAIN reached' :
          /\ reached'[i].count - 1 - reached'[i].endIndex <= EndThreshold
          /\ reached'[i].count >
               (IF i = 1 THEN onEndReachedCalledIndex ELSE reached'[i - 1].count)
     /\ onEndReachedCalledIndex' =
          (IF reached' = <<>> THEN onEndReachedCalledIndex
           ELSE reached'[Len(reached')].count)]_vars

\* The count grew beyond one item, the window reached the new end, and
\* onEndReached was called for the new count.
C20_Witness ==
  /\ ev = "children"
  /\ Len(reached) = 1
  /\ reached[1].count = Len(children)
  /\ reached[1].endIndex = store.endIndex
  /\ Len(children) > 1
  /\ onEndReachedCalledIndex = Len(children)

====
